---- MODULE Spec2Model ----
(***************************************************************************)
(* Chat-room management handlers of src/api/chatroom/chatroom.py over the  *)
(* four stores they read and write: Apps, Chatrooms, ChatroomAgentRelation *)
(* and ChatroomMessages.                                                   *)
(*                                                                         *)
(* Spec     : every handler runs to completion (one action per handler).   *)
(* SpecConc : two requests run at the same time and interleave at their    *)
(*            store calls (one action per store call).                     *)
(***************************************************************************)
EXTENDS Integers, Sequences, FiniteSets, TLC

\* ---- bounds of the model ----
MaxRooms == 2      \* rooms ever created
MaxAgent == 2      \* agent ids 1..MaxAgent exist
MaxLen   == 2      \* longest agent list of a request
MaxMsgs  == 2      \* message rows ever written
MaxUser  == 2      \* callers 1..MaxUser
MaxPage  == 2      \* page and page_size of a history request are in 1..MaxPage

\* ---- program constants ----
StatusActive  == 1
StatusDeleted == 3

\* None or '' of a request field
NoneVal == -1

VARIABLES
    apps,        \* Apps rows, id = index: [user_id, name, status]
    chatrooms,   \* Chatrooms rows, id = index
    relations,   \* ChatroomAgentRelation rows: a bag of [chatroom_id, agent_id, active]
    messages,    \* ChatroomMessages rows, id = index: [chatroom_id, is_read]
    last,        \* the last completed call and its response:
                 \*   op, key (the message key), id (the room of a successful call),
                 \*   n (rows of a history page), agent (the list of a successful
                 \*   update), bad (the agent list of the request was invalid)
    procs        \* SpecConc: the requests in flight

vars == <<apps, chatrooms, relations, messages, last, procs>>
stores == <<apps, chatrooms, relations, messages>>

Users     == 1..MaxUser
AgentIds  == 1..MaxAgent
RoomArgs  == 0..MaxRooms
AgentArgs == 0..(MaxAgent + 1)
FlagArgs  == {NoneVal, 0, 1, 2}
NameArgs  == {"", "room"}
RoundArgs == {NoneVal, 10}
PageArgs  == 1..MaxPage

\* ---- request bodies: the elements of an agent list ----
RequiredKeys == {"agent_id", "active"}

ValidItems ==
    {[isdict |-> TRUE, keys |-> RequiredKeys, agent_id |-> a, active |-> v] :
        a \in AgentIds, v \in {0, 1}}

BadItems ==
    { [isdict |-> FALSE, keys |-> {}, agent_id |-> 0, active |-> 0],
      [isdict |-> TRUE, keys |-> {"active"}, agent_id |-> 0, active |-> 1],
      [isdict |-> TRUE, keys |-> {"agent_id"}, agent_id |-> 1, active |-> 0] }

Items == ValidItems \cup BadItems

AgentLists == UNION {[1..n -> Items] : n \in 0..MaxLen}

ValidLists == UNION {[1..n -> ValidItems] : n \in 1..MaxLen}

\* ---- bags of rows ----
RECURSIVE SumCounts(_, _)
SumCounts(S, b) ==
    IF S = {} THEN 0
    ELSE LET x == CHOOSE y \in S : TRUE IN b[x] + SumCounts(S \ {x}, b)

NoRows == [x \in {} |-> 1]

BagAdd(b, e) ==
    [x \in DOMAIN b \cup {e} |-> IF x \in DOMAIN b THEN b[x] + (IF x = e THEN 1 ELSE 0) ELSE 1]

BagFilter(b, keep(_)) == [x \in {y \in DOMAIN b : keep(y)} |-> b[x]]

BagMap(b, f(_)) ==
    [x \in {f(y) : y \in DOMAIN b} |-> SumCounts({y \in DOMAIN b : f(y) = x}, b)]

BagSize(b) == SumCounts(DOMAIN b, b)

Row(c, a, v) == [chatroom_id |-> c, agent_id |-> a, active |-> v]

Min(S) == CHOOSE x \in S : \A y \in S : x <= y

\* ---- store queries ----
\* Chatrooms().search_chatrooms_id(chatroom_id, uid)
search_chatrooms_id(chatroom_id, uid) ==
    /\ chatroom_id \in 1..Len(chatrooms)
    /\ chatrooms[chatroom_id].user_id = uid
    /\ chatrooms[chatroom_id].status = StatusActive

\* Chatrooms().search_agent_id(agent_id)
search_agent_id(agent_id) == agent_id \in AgentIds

RoomRows(rel, chatroom_id) == {x \in DOMAIN rel : x.chatroom_id = chatroom_id}

\* ChatroomAgentRelation().search_chatroom_agent_relation_id(chatroom_id, agent_id)
search_chatroom_agent_relation_id(rel, chatroom_id, agent_id) ==
    \E x \in RoomRows(rel, chatroom_id) : x.agent_id = agent_id

\* ChatroomAgentRelation().get_agents_by_chatroom_id(chatroom_id): the agent ids
get_agents_by_chatroom_id(rel, chatroom_id) ==
    {x.agent_id : x \in RoomRows(rel, chatroom_id)}

\* ChatroomAgentRelation().get_active_agents_by_chatroom_id(chatroom_id): the rows
get_active_agents_by_chatroom_id(rel, chatroom_id) ==
    {x \in RoomRows(rel, chatroom_id) : x.active = 1}

\* len() of the rows get_active_agents_by_chatroom_id returns
ActiveCount(rel, chatroom_id) ==
    SumCounts(get_active_agents_by_chatroom_id(rel, chatroom_id), rel)

\* the comparison is strict
too_few_active_lt(rel, chatroom_id) == ActiveCount(rel, chatroom_id) < 1

\* lines 410-411: a deactivation is turned down when at most one membership is active
too_few_active(rel, chatroom_id) == ActiveCount(rel, chatroom_id) <= 1

\* ---- store writes ----
\* every entry is inserted, also when the room has a row of the agent
RECURSIVE insert_agent_plain(_, _, _)
insert_agent_plain(rel, agent, chatroom_id) ==
    IF agent = << >> THEN rel
    ELSE insert_agent_plain(
            BagAdd(rel, [chatroom_id |-> chatroom_id, agent_id |-> Head(agent).agent_id,
                         active |-> Head(agent).active]),
            Tail(agent), chatroom_id)

\* ChatroomAgentRelation().insert_agent({'agent': agent, 'chatroom_id': id}):
\* entry by entry, refresh the row of (chatroom_id, agent_id) or insert it
RECURSIVE insert_agent(_, _, _)
insert_agent(rel, agent, chatroom_id) ==
    IF agent = << >> THEN rel
    ELSE LET e == Head(agent)
             hit(x) == x.chatroom_id = chatroom_id /\ x.agent_id = e.agent_id
             row == [chatroom_id |-> chatroom_id, agent_id |-> e.agent_id,
                     active |-> e.active]
             next == IF \E x \in DOMAIN rel : hit(x)
                     THEN BagMap(rel, LAMBDA x : IF hit(x) THEN row ELSE x)
                     ELSE BagAdd(rel, row)
         IN insert_agent(next, Tail(agent), chatroom_id)

\* ChatroomAgentRelation().delete([agent_id = .., chatroom_id = ..])
delete_relation(rel, chatroom_id, agent_id) ==
    BagFilter(rel, LAMBDA x : ~(x.chatroom_id = chatroom_id /\ x.agent_id = agent_id))

\* the rows are looked up by the wrong column
delete_room_relations_by_agent(rel, chatroom_id) ==
    BagFilter(rel, LAMBDA x : x.agent_id # chatroom_id)

\* ChatroomAgentRelation().delete([chatroom_id = ..])
delete_room_relations(rel, chatroom_id) ==
    BagFilter(rel, LAMBDA x : x.chatroom_id # chatroom_id)

\* ChatroomAgentRelation().update([chatroom_id = .., agent_id = ..], {'active': v})
update_relation_active(rel, chatroom_id, agent_id, v) ==
    BagMap(rel, LAMBDA x : IF x.chatroom_id = chatroom_id /\ x.agent_id = agent_id
                           THEN [x EXCEPT !.active = v] ELSE x)

\* the update has no condition on the room
mark_every_room_read(msgs, chatroom_id) ==
    [i \in 1..Len(msgs) |-> [msgs[i] EXCEPT !.is_read = 1]]

\* ChatroomMessages().update({chatroom_id = ..}, {'is_read': 1})
mark_room_read(msgs, chatroom_id) ==
    [i \in 1..Len(msgs) |->
        IF msgs[i].chatroom_id = chatroom_id THEN [msgs[i] EXCEPT !.is_read = 1]
        ELSE msgs[i]]

\* ChatroomMessages().history_chatroom_messages(chatroom_id, page, page_size):
\* how many rows the page holds
history_chatroom_messages(msgs, chatroom_id, page, page_size) ==
    LET total == Cardinality({i \in 1..Len(msgs) : msgs[i].chatroom_id = chatroom_id})
        skip  == (page - 1) * page_size
    IN IF total <= skip THEN 0
       ELSE IF total - skip < page_size THEN total - skip ELSE page_size

\* ---- validation of an agent list (the loop of create_chatroom and update_chatroom) ----
\* the loop stops after the first element
AgentError_first(agent) ==
    IF Len(agent) = 0 THEN "chatroom_agent_is_required"
    ELSE IF ~agent[1].isdict THEN "chatroom_agent_item_must_be_a_dictionary"
    ELSE IF RequiredKeys \ agent[1].keys # {} THEN "chatroom_agent_item_missing_keys"
    ELSE "ok"

\* lines 63-73 and 292-302: the error of the first bad element, "ok" with none
AgentError(agent) ==
    IF Len(agent) = 0 THEN "chatroom_agent_is_required"
    ELSE LET bad == {i \in 1..Len(agent) :
                        ~agent[i].isdict \/ RequiredKeys \ agent[i].keys # {}}
         IN IF bad = {} THEN "ok"
            ELSE IF ~agent[Min(bad)].isdict
                 THEN "chatroom_agent_item_must_be_a_dictionary"
                 ELSE "chatroom_agent_item_missing_keys"

\* an agent list the handlers must turn down: empty, or with an element that
\* is no mapping or lacks a required key
BadList(agent) ==
    \/ Len(agent) = 0
    \/ \E i \in 1..Len(agent) : ~agent[i].isdict \/ ~(RequiredKeys \subseteq agent[i].keys)

\* ---- responses ----
\* the response of a call, with what the call was (op, id) and what it was given
Response(op, key, id, n, agent, bad, again) ==
    last' = [op |-> op, key |-> key, id |-> id, n |-> n, agent |-> agent,
             bad |-> bad, again |-> again]

response_success(op, key, id) == Response(op, key, id, 0, << >>, FALSE, FALSE)

response_error(op, key, id) ==
    Response(op, key, id, 0, << >>, FALSE, FALSE) /\ UNCHANGED stores

\* a create or update request that is turned down
body_error(op, key, id, agent) ==
    Response(op, key, id, 0, << >>, BadList(agent), FALSE) /\ UNCHANGED stores

Init ==
    /\ apps = << >>
    /\ chatrooms = << >>
    /\ relations = NoRows
    /\ messages = << >>
    /\ last = [op |-> "none", key |-> "none", id |-> 0, n |-> 0, agent |-> << >>,
               bad |-> FALSE, again |-> FALSE]
    /\ procs = << >>

\* ---- the handlers, each run to completion ----
create_chatroom(uid, name, max_round, agent) ==
    /\ UNCHANGED procs
    /\ IF name = "" THEN body_error("create", "chatroom_name_is_required", 0, agent)
       ELSE IF max_round = NoneVal
       THEN body_error("create", "chatroom_max_round_is_required", 0, agent)
       ELSE IF AgentError(agent) # "ok"
       THEN body_error("create", AgentError(agent), 0, agent)
       ELSE /\ Len(chatrooms) < MaxRooms
            /\ LET app_id == Len(apps) + 1
                   chatroom_id == Len(chatrooms) + 1
               IN /\ apps' = Append(apps, [user_id |-> uid, name |-> name,
                                           status |-> StatusActive])
                  /\ chatrooms' = Append(chatrooms,
                        [user_id |-> uid, app_id |-> app_id, max_round |-> max_round,
                         smart_selection |-> 0, status |-> StatusActive, active |-> 0])
                  /\ relations' = insert_agent(relations, agent, chatroom_id)
                  /\ UNCHANGED messages
                  /\ Response("create", "success", chatroom_id, 0, agent,
                              BadList(agent), FALSE)

delete_chatroom(uid, chatroom_id) ==
    /\ UNCHANGED procs
    /\ IF chatroom_id = 0
       THEN response_error("delete", "chatroom_id_is_required", chatroom_id)
       ELSE IF ~search_chatrooms_id(chatroom_id, uid)
       THEN response_error("delete", "chatroom_does_not_exist", chatroom_id)
       ELSE LET app_id == chatrooms[chatroom_id].app_id
            IN /\ chatrooms' = [chatrooms EXCEPT ![chatroom_id].status = StatusDeleted]
               /\ apps' = [i \in 1..Len(apps) |->
                            IF i = app_id /\ apps[i].user_id = uid
                            THEN [apps[i] EXCEPT !.status = StatusDeleted] ELSE apps[i]]
               /\ relations' = delete_room_relations(relations, chatroom_id)
               /\ UNCHANGED messages
               /\ response_success("delete", "chatroom_delete_success", chatroom_id)

\* GET /{chatroom_id}/details: a read; "does not exist" comes in a success envelope
show_chatroom_details(uid, chatroom_id) ==
    /\ UNCHANGED <<stores, procs>>
    /\ IF ~search_chatrooms_id(chatroom_id, uid)
       THEN response_success("details", "chatroom_does_not_exist", chatroom_id)
       ELSE response_success("details", "success", chatroom_id)

toggle_smart_selection_switch(uid, chatroom_id, smart_selection) ==
    /\ UNCHANGED procs
    /\ IF chatroom_id = 0
       THEN response_error("smart_selection", "chatroom_id_is_required", chatroom_id)
       ELSE IF ~search_chatrooms_id(chatroom_id, uid)
       THEN response_error("smart_selection", "chatroom_does_not_exist", chatroom_id)
       ELSE IF smart_selection = NoneVal
       THEN response_error("smart_selection",
                           "chatroom_smart_selection_status_is_required", chatroom_id)
       ELSE IF smart_selection \notin {0, 1}
       THEN response_error("smart_selection",
                           "chatroom_smart_selection_status_can_only_input", chatroom_id)
       ELSE /\ chatrooms' = [chatrooms EXCEPT
                                ![chatroom_id].smart_selection = smart_selection]
            /\ UNCHANGED <<apps, relations, messages>>
            /\ response_success("smart_selection", "success", chatroom_id)

\* the loop over agents_to_delete of update_chatroom
RECURSIVE delete_agents(_, _, _)
delete_agents(rel, chatroom_id, agent_ids) ==
    IF agent_ids = {} THEN rel
    ELSE LET a == CHOOSE x \in agent_ids : TRUE
         IN delete_agents(delete_relation(rel, chatroom_id, a), chatroom_id,
                          agent_ids \ {a})

agent_id_set(agent) == {agent[i].agent_id : i \in 1..Len(agent)}

\* the operands of the difference are swapped
agents_to_delete_swapped(existing_agent_ids, new_agents) ==
    agent_id_set(new_agents) \ existing_agent_ids

agents_to_delete(existing_agent_ids, new_agents) ==
    existing_agent_ids \ agent_id_set(new_agents)

\* "in" for "not in"
agents_to_add_in(existing_agent_ids, new_agents) ==
    SelectSeq(new_agents, LAMBDA e : e.agent_id \in existing_agent_ids)

agents_to_add(existing_agent_ids, new_agents) ==
    SelectSeq(new_agents, LAMBDA e : e.agent_id \notin existing_agent_ids)

agents_to_update(existing_agent_ids, new_agents) ==
    SelectSeq(new_agents, LAMBDA e : e.agent_id \in existing_agent_ids)

\* the rows of agents_to_update are deleted and not written again
reconcile_drops_kept(rel, chatroom_id, new_agents) ==
    LET existing_agent_ids == get_agents_by_chatroom_id(rel, chatroom_id)
        deleted == delete_agents(rel, chatroom_id,
                                 agents_to_delete(existing_agent_ids, new_agents))
        added == insert_agent(deleted, agents_to_add(existing_agent_ids, new_agents),
                              chatroom_id)
    IN delete_agents(added, chatroom_id,
                     agent_id_set(agents_to_update(existing_agent_ids, new_agents)))

\* lines 324-357 of update_chatroom: the membership of the room after the
\* reconciliation with new_agents
reconcile(rel, chatroom_id, new_agents) ==
    LET existing_agent_ids == get_agents_by_chatroom_id(rel, chatroom_id)
        deleted == delete_agents(rel, chatroom_id,
                                 agents_to_delete(existing_agent_ids, new_agents))
        added == insert_agent(deleted, agents_to_add(existing_agent_ids, new_agents),
                              chatroom_id)
    IN insert_agent(added, agents_to_update(existing_agent_ids, new_agents), chatroom_id)

update_chatroom(uid, chatroom_id, name, max_round, new_agents) ==
    /\ UNCHANGED procs
    /\ IF ~search_chatrooms_id(chatroom_id, uid)
       THEN body_error("update", "chatroom_does_not_exist", chatroom_id, new_agents)
       ELSE IF name = ""
       THEN body_error("update", "chatroom_name_is_required", chatroom_id, new_agents)
       ELSE IF max_round = NoneVal
       THEN body_error("update", "chatroom_max_round_is_required", chatroom_id, new_agents)
       ELSE IF AgentError(new_agents) # "ok"
       THEN body_error("update", AgentError(new_agents), chatroom_id, new_agents)
       ELSE LET app_id == chatrooms[chatroom_id].app_id
            IN /\ apps' = [i \in 1..Len(apps) |->
                            IF i = app_id /\ apps[i].user_id = uid
                            THEN [apps[i] EXCEPT !.name = name] ELSE apps[i]]
               /\ chatrooms' = [chatrooms EXCEPT ![chatroom_id].max_round = max_round]
               /\ relations' = reconcile(relations, chatroom_id, new_agents)
               /\ UNCHANGED messages
               \* again: the call before was this same update (NameArgs and
               \* RoundArgs hold one valid value each, the owner is the caller)
               /\ Response("update", "success", chatroom_id, 0, new_agents,
                           BadList(new_agents),
                           /\ last.op = "update"
                           /\ last.key = "success"
                           /\ last.id = chatroom_id
                           /\ last.agent = new_agents)

toggle_auto_answer_switch(uid, chatroom_id, agent_id, active) ==
    /\ UNCHANGED procs
    /\ IF chatroom_id = 0
       THEN response_error("agent_setting", "chatroom_id_is_required", chatroom_id)
       ELSE IF ~search_chatrooms_id(chatroom_id, uid)
       THEN response_error("agent_setting", "chatroom_does_not_exist", chatroom_id)
       ELSE IF agent_id = 0
       THEN response_error("agent_setting", "chatroom_agent_id_is_required", chatroom_id)
       ELSE IF ~search_agent_id(agent_id)
       THEN response_error("agent_setting", "agent_does_not_exist", chatroom_id)
       ELSE IF active = NoneVal
       THEN response_error("agent_setting", "chatroom_agent_active_is_required",
                           chatroom_id)
       ELSE IF active \notin {0, 1}
       THEN response_error("agent_setting", "chatroom_agent_active_can_only_input",
                           chatroom_id)
       ELSE IF ~search_chatroom_agent_relation_id(relations, chatroom_id, agent_id)
       THEN response_error("agent_setting", "chatroom_agent_relation_does_not_exist",
                           chatroom_id)
       ELSE IF active = 0 /\ too_few_active(relations, chatroom_id)
       THEN response_error("agent_setting", "chatroom_agent_number_less_than_one",
                           chatroom_id)
       ELSE /\ relations' = update_relation_active(relations, chatroom_id, agent_id, active)
            /\ UNCHANGED <<apps, chatrooms, messages>>
            /\ response_success("agent_setting", "success", chatroom_id)

\* GET /{chatroom_id}/chatroom_message (the second show_chatroom_details of the file)
chatroom_message(uid, chatroom_id, page, page_size) ==
    /\ UNCHANGED procs
    /\ IF ~search_chatrooms_id(chatroom_id, uid)
       THEN response_error("history", "chatroom_does_not_exist", chatroom_id)
       ELSE /\ chatrooms' = [chatrooms EXCEPT ![chatroom_id].active = 0]
            /\ messages' = mark_room_read(messages, chatroom_id)
            /\ UNCHANGED <<apps, relations>>
            /\ Response("history", "success", chatroom_id,
                        history_chatroom_messages(messages, chatroom_id, page, page_size),
                        << >>, FALSE, FALSE)

chatroom_list(uid) ==
    /\ UNCHANGED <<stores, procs>>
    /\ response_success("list", "success", 0)

recent_chatroom_list(uid, chatroom_id) ==
    /\ UNCHANGED <<stores, procs>>
    /\ response_success("recent", "success", 0)

\* chat activity, outside this file: a message is written to a room in use
chat_activity(chatroom_id) ==
    /\ Len(messages) < MaxMsgs
    /\ chatroom_id \in 1..Len(chatrooms)
    /\ chatrooms[chatroom_id].status = StatusActive
    /\ messages' = Append(messages, [chatroom_id |-> chatroom_id, is_read |-> 0])
    /\ chatrooms' = [chatrooms EXCEPT ![chatroom_id].active = 1]
    /\ UNCHANGED <<apps, relations, procs>>
    /\ response_success("chat", "success", chatroom_id)

\* ---- the requests ----
\* the body of a create or update request; a body that is turned down before
\* its agent list is looked at (no such room, no name, no max_round) is tried
\* with the lists of FirstLists only
FirstLists == {<< >>} \cup [1..1 -> {[isdict |-> TRUE, keys |-> RequiredKeys,
                                      agent_id |-> 1, active |-> 1]}]

\* the lists of Spec: no list, one malformed entry, or agent 1 alone
OneLists == FirstLists \cup [1..1 -> BadItems]

Bodies(lists) ==
    {b \in [name : NameArgs, max_round : RoundArgs, agent : lists \cup FirstLists] :
        (b.name = "" \/ b.max_round = NoneVal) => b.agent \in FirstLists}

FirstBodies == Bodies(FirstLists)

OneBodies == Bodies(OneLists)

AgentBodies == Bodies(AgentLists)

Create ==
    \E uid \in Users, b \in OneBodies : create_chatroom(uid, b.name, b.max_round, b.agent)

Update ==
    \E uid \in Users, chatroom_id \in RoomArgs :
        \E b \in IF search_chatrooms_id(chatroom_id, uid) THEN OneBodies ELSE FirstBodies :
            update_chatroom(uid, chatroom_id, b.name, b.max_round, b.agent)

CreateAgents ==
    \E uid \in Users, b \in AgentBodies : create_chatroom(uid, b.name, b.max_round, b.agent)

UpdateAgents ==
    \E uid \in Users, chatroom_id \in RoomArgs :
        \E b \in IF search_chatrooms_id(chatroom_id, uid) THEN AgentBodies ELSE FirstBodies :
            update_chatroom(uid, chatroom_id, b.name, b.max_round, b.agent)

Delete == \E uid \in Users, chatroom_id \in RoomArgs : delete_chatroom(uid, chatroom_id)

Details == \E uid \in Users, chatroom_id \in RoomArgs : show_chatroom_details(uid, chatroom_id)

SetSmartSelection == \E uid \in Users, chatroom_id \in RoomArgs, v \in FlagArgs :
                        toggle_smart_selection_switch(uid, chatroom_id, v)

SetAgentActive == \E uid \in Users, chatroom_id \in RoomArgs, agent_id \in AgentArgs,
                     active \in FlagArgs :
                    toggle_auto_answer_switch(uid, chatroom_id, agent_id, active)

History == \E uid \in Users, chatroom_id \in RoomArgs, page \in PageArgs,
              page_size \in PageArgs :
             chatroom_message(uid, chatroom_id, page, page_size)

List == \E uid \in Users : chatroom_list(uid)

Recent == \E uid \in Users, chatroom_id \in RoomArgs : recent_chatroom_list(uid, chatroom_id)

ChatActivity == \E chatroom_id \in RoomArgs : chat_activity(chatroom_id)

\* every handler; agent lists of at most one entry
Next ==
    \/ Create
    \/ Update
    \/ Delete
    \/ Details
    \/ SetSmartSelection
    \/ SetAgentActive
    \/ History
    \/ List
    \/ Recent
    \/ ChatActivity

Spec == Init /\ [][Next]_vars

\* the handlers that write memberships; agent lists of up to MaxLen entries
NextAgents ==
    \/ CreateAgents
    \/ UpdateAgents
    \/ Delete
    \/ SetAgentActive

SpecAgents == Init /\ [][NextAgents]_vars

\* ---- two requests at a time, interleaved at their store calls ----
\* The handlers hold no lock and open no transaction: between two store calls
\* of one request the other request may run any of its own.
Procs == {1, 2}

\* the caller of every request: the owner of the room
Owner == Min(Users)

\* valid agent lists that name each agent once, in ascending order
ConcLists == {l \in ValidLists : \A i \in 1..(Len(l) - 1) : l[i].agent_id < l[i + 1].agent_id}

Idle ==
    [pc |-> "idle", op |-> "none", uid |-> 0, id |-> 0, agent_id |-> 0, active |-> 0,
     agent |-> << >>, existing |-> {}, todo |-> {}, seen |-> {}, key |-> "none",
     overlap |-> {}]

\* a room the serial handler create_chatroom has made, and nothing in flight
InitConc ==
    /\ \E l \in ConcLists :
        /\ apps = << [user_id |-> Owner, name |-> "room", status |-> StatusActive] >>
        /\ chatrooms = << [user_id |-> Owner, app_id |-> Len(apps), max_round |-> 10,
                           smart_selection |-> 0, status |-> StatusActive,
                           active |-> 0] >>
        /\ relations = insert_agent(NoRows, l, Len(chatrooms))
    /\ messages = << >>
    /\ last = [op |-> "none", key |-> "none", id |-> 0, n |-> 0, agent |-> << >>,
               bad |-> FALSE, again |-> FALSE]
    /\ procs = [p \in Procs |-> Idle]

Free(p) == procs[p].pc \in {"idle", "done"}

At(p, pc) == procs[p].pc = pc

\* process p starts the call req; overlap holds the processes whose present
\* call runs, or ran, while the present call of p does
Start(p, req) ==
    procs' = [r \in Procs |->
                IF r = p THEN [req EXCEPT !.overlap = {q \in Procs \ {p} : ~Free(q)}]
                ELSE IF Free(r) THEN [procs[r] EXCEPT !.overlap = @ \ {p}]
                ELSE [procs[r] EXCEPT !.overlap = @ \cup {p}]]

Goto(p, pc) == procs' = [procs EXCEPT ![p].pc = pc]

Return(p, key) ==
    procs' = [procs EXCEPT ![p].pc = "done", ![p].key = key, ![p].existing = {},
                           ![p].todo = {}]

\* -- PUT /{chatroom_id}/agents/{agent_id}/setting --
CallSetAgentActive(p) ==
    /\ Free(p)
    /\ \E id \in 1..Len(chatrooms), agent_id \in AgentIds, active \in {0, 1} :
        Start(p, [Idle EXCEPT !.pc = "t_find", !.op = "agent_setting",
                       !.uid = Owner, !.id = id, !.agent_id = agent_id,
                       !.active = active])
    /\ UNCHANGED <<stores, last>>

\* line 385: search_chatrooms_id (line 392, search_agent_id, finds every agent of AgentIds)
TFind(p) ==
    /\ At(p, "t_find")
    /\ IF search_chatrooms_id(procs[p].id, procs[p].uid)
       THEN Goto(p, "t_rel")
       ELSE Return(p, "chatroom_does_not_exist")
    /\ UNCHANGED <<stores, last>>

\* line 405: search_chatroom_agent_relation_id
TRelation(p) ==
    /\ At(p, "t_rel")
    /\ IF ~search_chatroom_agent_relation_id(relations, procs[p].id, procs[p].agent_id)
       THEN Return(p, "chatroom_agent_relation_does_not_exist")
       ELSE IF procs[p].active = 0 THEN Goto(p, "t_guard") ELSE Goto(p, "t_write")
    /\ UNCHANGED <<stores, last>>

\* lines 409-412: the guard reads the active memberships
TGuard(p) ==
    /\ At(p, "t_guard")
    /\ LET agents == get_active_agents_by_chatroom_id(relations, procs[p].id)
           seen == {x.agent_id : x \in agents}
       IN IF too_few_active(relations, procs[p].id)
          THEN procs' = [procs EXCEPT ![p].pc = "done", ![p].seen = seen,
                            ![p].key = "chatroom_agent_number_less_than_one"]
          ELSE procs' = [procs EXCEPT ![p].pc = "t_write", ![p].seen = seen]
    /\ UNCHANGED <<stores, last>>

\* the write is left out when it would take the last active membership
TWrite_checked(p) ==
    /\ At(p, "t_write")
    /\ relations' =
        IF procs[p].active = 0
           /\ get_active_agents_by_chatroom_id(relations, procs[p].id)
                \subseteq {Row(procs[p].id, procs[p].agent_id, 1)}
        THEN relations
        ELSE update_relation_active(relations, procs[p].id, procs[p].agent_id,
                                    procs[p].active)
    /\ Return(p, "success")
    /\ UNCHANGED <<apps, chatrooms, messages, last>>

\* lines 414-422: the write
TWrite(p) ==
    /\ At(p, "t_write")
    /\ relations' = update_relation_active(relations, procs[p].id, procs[p].agent_id,
                                           procs[p].active)
    /\ Return(p, "success")
    /\ UNCHANGED <<apps, chatrooms, messages, last>>

\* -- POST /{chatroom_id}/update_chatroom --
CallUpdate(p) ==
    /\ Free(p)
    /\ \E id \in 1..Len(chatrooms), agent \in ConcLists :
        Start(p, [Idle EXCEPT !.pc = "u_find", !.op = "update",
                       !.uid = Owner, !.id = id, !.agent = agent])
    /\ UNCHANGED <<stores, last>>

\* line 282: search_chatrooms_id
UFind(p) ==
    /\ At(p, "u_find")
    /\ IF search_chatrooms_id(procs[p].id, procs[p].uid)
       THEN Goto(p, "u_app")
       ELSE Return(p, "chatroom_does_not_exist")
    /\ UNCHANGED <<stores, last>>

\* lines 304-314: Apps().update
UApp(p) ==
    /\ At(p, "u_app")
    /\ apps' = [i \in 1..Len(apps) |->
                  IF i = chatrooms[procs[p].id].app_id /\ apps[i].user_id = procs[p].uid
                  THEN [apps[i] EXCEPT !.name = "room"] ELSE apps[i]]
    /\ Goto(p, "u_room")
    /\ UNCHANGED <<chatrooms, relations, messages, last>>

\* lines 316-322: Chatrooms().update
URoom(p) ==
    /\ At(p, "u_room")
    /\ chatrooms' = [chatrooms EXCEPT ![procs[p].id].max_round = 10]
    /\ Goto(p, "u_read")
    /\ UNCHANGED <<apps, relations, messages, last>>

\* where an update goes on after its read and after each of its writes
UNextPc(todo, existing, agent, after) ==
    IF after = "u_read" /\ todo # {} THEN "u_del"
    ELSE IF after \in {"u_read", "u_del"} /\ agents_to_add(existing, agent) # << >>
    THEN "u_add"
    ELSE IF after \in {"u_read", "u_del", "u_add"} /\ agents_to_update(existing, agent) # << >>
    THEN "u_upd"
    ELSE "done"

UGoOn(p, todo, existing, after) ==
    LET pc == UNextPc(todo, existing, procs[p].agent, after)
    IN IF pc = "done"
       THEN procs' = [procs EXCEPT ![p].pc = "done", ![p].key = "success",
                                   ![p].existing = {}, ![p].todo = {}]
       ELSE procs' = [procs EXCEPT ![p].pc = pc, ![p].existing = existing,
                                   ![p].todo = todo]

\* lines 324-331: the read of the memberships and the three differences
URead(p) ==
    /\ At(p, "u_read")
    /\ LET existing == get_agents_by_chatroom_id(relations, procs[p].id)
       IN UGoOn(p, agents_to_delete(existing, procs[p].agent), existing, "u_read")
    /\ UNCHANGED <<stores, last>>

\* lines 333-341: one delete of the loop, in the order list() gives the set
UDelete(p) ==
    /\ At(p, "u_del")
    /\ \E a \in procs[p].todo :
        /\ relations' = delete_relation(relations, procs[p].id, a)
        /\ IF procs[p].todo = {a}
           THEN UGoOn(p, {}, procs[p].existing, "u_del")
           ELSE procs' = [procs EXCEPT ![p].todo = @ \ {a}]
    /\ UNCHANGED <<apps, chatrooms, messages, last>>

\* lines 343-349: insert_agent(agents_to_add)
UAdd(p) ==
    /\ At(p, "u_add")
    /\ relations' = insert_agent(relations, agents_to_add(procs[p].existing, procs[p].agent),
                                 procs[p].id)
    /\ UGoOn(p, {}, procs[p].existing, "u_add")
    /\ UNCHANGED <<apps, chatrooms, messages, last>>

\* lines 351-357: insert_agent(agents_to_update)
UUpdate(p) ==
    /\ At(p, "u_upd")
    /\ relations' = insert_agent(relations,
                                 agents_to_update(procs[p].existing, procs[p].agent),
                                 procs[p].id)
    /\ UGoOn(p, {}, procs[p].existing, "u_upd")
    /\ UNCHANGED <<apps, chatrooms, messages, last>>

\* -- DELETE /{chatroom_id} --
CallDelete(p) ==
    /\ Free(p)
    /\ \E id \in 1..Len(chatrooms) :
        Start(p, [Idle EXCEPT !.pc = "d_find", !.op = "delete", !.uid = Owner, !.id = id])
    /\ UNCHANGED <<stores, last>>

\* line 143: search_chatrooms_id
DFind(p) ==
    /\ At(p, "d_find")
    /\ IF search_chatrooms_id(procs[p].id, procs[p].uid)
       THEN Goto(p, "d_room")
       ELSE Return(p, "chatroom_does_not_exist")
    /\ UNCHANGED <<stores, last>>

\* lines 147-154: Chatrooms().update status
DRoom(p) ==
    /\ At(p, "d_room")
    /\ chatrooms' = [i \in 1..Len(chatrooms) |->
                       IF i = procs[p].id /\ chatrooms[i].user_id = procs[p].uid
                       THEN [chatrooms[i] EXCEPT !.status = StatusDeleted]
                       ELSE chatrooms[i]]
    /\ Goto(p, "d_app")
    /\ UNCHANGED <<apps, relations, messages, last>>

\* lines 155-162: Apps().update status
DApp(p) ==
    /\ At(p, "d_app")
    /\ apps' = [i \in 1..Len(apps) |->
                  IF i = chatrooms[procs[p].id].app_id /\ apps[i].user_id = procs[p].uid
                  THEN [apps[i] EXCEPT !.status = StatusDeleted] ELSE apps[i]]
    /\ Goto(p, "d_rel")
    /\ UNCHANGED <<chatrooms, relations, messages, last>>

\* lines 163-168: ChatroomAgentRelation().delete
DRelations(p) ==
    /\ At(p, "d_rel")
    /\ relations' = delete_room_relations(relations, procs[p].id)
    /\ Return(p, "chatroom_delete_success")
    /\ UNCHANGED <<apps, chatrooms, messages, last>>

NextConc ==
    \E p \in Procs :
        \/ CallSetAgentActive(p)
        \/ TFind(p)
        \/ TRelation(p)
        \/ TGuard(p)
        \/ TWrite(p)
        \/ CallUpdate(p)
        \/ UFind(p)
        \/ UApp(p)
        \/ URoom(p)
        \/ URead(p)
        \/ UDelete(p)
        \/ UAdd(p)
        \/ UUpdate(p)
        \/ CallDelete(p)
        \/ DFind(p)
        \/ DRoom(p)
        \/ DApp(p)
        \/ DRelations(p)

SpecConc == InitConc /\ [][NextConc]_vars

\* ---- the claims ----
RoomIds == 1..Len(chatrooms)

Live(c) == c \in RoomIds /\ chatrooms[c].status = StatusActive

\* the rows of a room with their counts
RoomBag(rel, c) == [x \in RoomRows(rel, c) |-> rel[x]]

\* the active flag of the last entry of a list that names agent a
LastActive(agent, a) ==
    LET is == {i \in 1..Len(agent) : agent[i].agent_id = a}
    IN agent[CHOOSE i \in is : \A j \in is : j <= i].active

\* C1: every room that exists and is not deleted has at least one membership
\* row with active = 1, after any sequence of completed calls.
C1_LiveRoomHasActiveAgent ==
    \A c \in RoomIds : Live(c) => ActiveCount(relations, c) >= 1

\* C2: set_agent_active(room, agent, active = 0) on an existing room of the
\* caller, for an existing agent that has a membership row in the room: with
\* exactly one active membership the call fails with the "at least one" error
\* and no membership row changes; with two or more it succeeds and exactly
\* that agent's row gets active = 0.
C2_DeactivateStep ==
    \A uid \in Users, a \in AgentIds :
        LET c == last'.id
            others == {x \in DOMAIN relations : ~(x.chatroom_id = c /\ x.agent_id = a)}
        IN ( /\ last'.op = "agent_setting"
             /\ toggle_auto_answer_switch(uid, c, a, 0)
             /\ search_chatrooms_id(c, uid)
             /\ search_chatroom_agent_relation_id(relations, c, a) )
           => /\ ActiveCount(relations, c) = 1 =>
                    /\ last'.key = "chatroom_agent_number_less_than_one"
                    /\ relations' = relations
              /\ ActiveCount(relations, c) >= 2 =>
                    /\ last'.key = "success"
                    /\ DOMAIN relations' = others \cup {Row(c, a, 0)}
                    /\ relations'[Row(c, a, 0)] = 1
                    /\ \A x \in others : relations'[x] = relations[x]

\* C2: every step of the model satisfies the deactivation rule: turned down
\* with one active membership, exactly that row written with two or more.
C2_DeactivateGuard == [][C2_DeactivateStep]_vars

\* a deactivation was turned down in a room with two rows, one of them active
C2_Witness ==
    /\ last.op = "agent_setting"
    /\ last.key = "chatroom_agent_number_less_than_one"
    /\ Live(last.id)
    /\ ActiveCount(relations, last.id) = 1
    /\ Cardinality(RoomRows(relations, last.id)) = 2

\* C3: after a successful update(room, agent_list), with E the agent ids of
\* the room before the call and N those of agent_list: the agent ids of the
\* room are exactly N; no agent of E \ N has a row, every agent of N \ E has
\* one, every agent of E \cap N has one, whose active flag is the value of its
\* (last) incoming entry.
C3_UpdateStep ==
    (last'.op = "update" /\ last'.key = "success") =>
        LET c == last'.id
            E == get_agents_by_chatroom_id(relations, c)
            N == agent_id_set(last'.agent)
            rows(a) == {x \in RoomRows(relations', c) : x.agent_id = a}
        IN /\ get_agents_by_chatroom_id(relations', c) = N
           /\ \A a \in E \ N : rows(a) = {}
           /\ \A a \in N \ E : SumCounts(rows(a), relations') = 1
           /\ \A a \in E \cap N :
                /\ SumCounts(rows(a), relations') = 1
                /\ \A x \in rows(a) : x.active = LastActive(last'.agent, a)

\* C3: every successful update step leaves the room attached to exactly the
\* agents of the incoming list, each with the incoming active flag.
C3_UpdateReconciles == [][C3_UpdateStep]_vars

\* an update dropped an agent, added one and kept one
C3_Witness ==
    /\ last.op = "update"
    /\ last.key = "success"
    /\ Len(last.agent) = 2
    /\ get_agents_by_chatroom_id(relations, last.id) = {1, 2}
    /\ \E x \in RoomRows(relations, last.id) : x.active = 0
    /\ \E x \in RoomRows(relations, last.id) : x.active = 1

\* C4: update called twice in succession with the same arguments leaves the
\* room with the same membership rows as calling it once.
C4_SecondUpdateStep ==
    (last'.op = "update" /\ last'.again) =>
        RoomBag(relations', last'.id) = RoomBag(relations, last'.id)

\* C4: every update step that repeats the update before it leaves the
\* memberships of the room as the first one left them.
C4_UpdateIdempotent == [][C4_SecondUpdateStep]_vars

\* the same update was made twice, on a room it gave two agents
C4_Witness ==
    /\ last.op = "update"
    /\ last.again
    /\ Cardinality(RoomRows(relations, last.id)) = 2

\* C5: a create or update call whose agent list is empty or holds an element
\* that is no mapping or lacks agent_id or active returns an error and leaves
\* the four stores as they were.
C5_BadListStep ==
    (last'.op \in {"create", "update"} /\ last'.bad) =>
        (last'.key # "success" /\ UNCHANGED stores)

\* C5: every create or update step with an empty or malformed agent list
\* returns an error and leaves the four stores unchanged.
C5_BadListWritesNothing == [][C5_BadListStep]_vars

\* a list whose second element lacks a key was turned down, with a room in place
C5_Witness ==
    /\ last.op \in {"create", "update"}
    /\ last.bad
    /\ last.key = "chatroom_agent_item_missing_keys"
    /\ chatrooms # << >>

\* C6: after a successful delete the room and its application have status 3
\* and the room has no membership row; every later details, update,
\* set_smart_selection, set_agent_active and history call on the room reports
\* "does not exist" and changes nothing; every Message row the room had is
\* still there, unchanged.
C6_DeletedRoomStep ==
    /\ \A c \in 1..Len(chatrooms') :
        chatrooms'[c].status = StatusDeleted =>
            /\ apps'[chatrooms'[c].app_id].status = StatusDeleted
            /\ RoomRows(relations', c) = {}
    /\ \A c \in RoomIds :
        chatrooms[c].status = StatusDeleted =>
            /\ chatrooms'[c].status = StatusDeleted
            /\ \A i \in 1..Len(messages) :
                messages[i].chatroom_id = c =>
                    i <= Len(messages') /\ messages'[i] = messages[i]
            /\ ( /\ last'.id = c
                 /\ last'.op \in {"details", "update", "smart_selection",
                                  "agent_setting", "history"} )
               => (last'.key = "chatroom_does_not_exist" /\ UNCHANGED stores)

\* C6: every step on a deleted room answers "does not exist" and changes
\* nothing; the room and its application keep status 3, the room has no
\* membership row and its messages stay.
C6_DeletedRoomStaysDeleted == [][C6_DeletedRoomStep]_vars

\* a history call on a deleted room that keeps an unread message was turned down
C6_Witness ==
    /\ last.op = "history"
    /\ last.key = "chatroom_does_not_exist"
    /\ last.id \in RoomIds
    /\ chatrooms[last.id].status = StatusDeleted
    /\ \E i \in 1..Len(messages) :
        messages[i].chatroom_id = last.id /\ messages[i].is_read = 0

\* C7: every successful history(room, owner, page, page_size) call, also for a
\* page beyond the last one, sets the room's active flag to 0 and is_read = 1
\* on every Message row of the room and changes no Message row of another
\* room; a history call on a room that does not exist or is not the caller's
\* changes nothing.
C7_HistoryStep ==
    last'.op = "history" =>
        \A uid \in Users, page \in PageArgs, page_size \in PageArgs :
            chatroom_message(uid, last'.id, page, page_size) =>
                LET c == last'.id
                IN IF search_chatrooms_id(c, uid)
                   THEN /\ last'.key = "success"
                        /\ chatrooms'[c].active = 0
                        /\ Len(messages') = Len(messages)
                        /\ \A i \in 1..Len(messages) :
                            IF messages[i].chatroom_id = c
                            THEN /\ messages'[i].chatroom_id = c
                                 /\ messages'[i].is_read = 1
                            ELSE messages'[i] = messages[i]
                   ELSE last'.key # "success" /\ UNCHANGED stores

\* C7: every successful history step sets the room inactive and all of its
\* messages read, whatever the page; a rejected one changes nothing.
C7_HistoryMarksRoomRead == [][C7_HistoryStep]_vars

\* a page beyond the last one was fetched: no row came back, the room's message
\* is read and the room inactive, the other room's message is still unread
C7_Witness ==
    /\ last.op = "history"
    /\ last.key = "success"
    /\ last.n = 0
    /\ chatrooms[last.id].active = 0
    /\ \E i \in 1..Len(messages) : messages[i].chatroom_id = last.id
    /\ \A i \in 1..Len(messages) :
        messages[i].chatroom_id = last.id => messages[i].is_read = 1
    /\ \E i \in 1..Len(messages) :
        messages[i].chatroom_id # last.id /\ messages[i].is_read = 0

Succeeded(p, op) ==
    procs[p].pc = "done" /\ procs[p].op = op /\ procs[p].key = "success"

\* C9: the guard read and the write of set_agent_active are separate store
\* steps: when two concurrent set_agent_active(active = 0) calls for the two
\* active agents of a room both pass the guard, both write, and the room is
\* left with no membership with active = 1.
C9_BothDeactivationsWrite ==
    \A p, q \in Procs :
        ( /\ p # q
          /\ q \in procs[p].overlap
          /\ Succeeded(p, "agent_setting") /\ Succeeded(q, "agent_setting")
          /\ procs[p].active = 0 /\ procs[q].active = 0
          /\ procs[p].id = procs[q].id
          /\ procs[p].agent_id # procs[q].agent_id
          /\ procs[p].seen = {procs[p].agent_id, procs[q].agent_id}
          /\ procs[q].seen = procs[p].seen )
        => ActiveCount(relations, procs[p].id) = 0

\* both calls have returned success and the room, still in use, has two rows
\* and none active
C9_Witness ==
    /\ 2 \in procs[1].overlap
    /\ Succeeded(1, "agent_setting") /\ Succeeded(2, "agent_setting")
    /\ procs[1].active = 0 /\ procs[2].active = 0
    /\ procs[1].agent_id # procs[2].agent_id
    /\ procs[1].seen = {procs[1].agent_id, procs[2].agent_id}
    /\ procs[2].seen = procs[1].seen
    /\ procs[1].id = procs[2].id
    /\ Live(procs[1].id)
    /\ Cardinality(RoomRows(relations, procs[1].id)) = 2
    /\ ActiveCount(relations, procs[1].id) = 0

\* C10: two concurrent update calls on a room, with lists N1 and N2,
\* interleave their reads, deletes and inserts; the agents they leave are
\* within N1 \cup N2 and include N1 or N2, and can be neither N1 nor N2.
C10_TwoUpdatesLeaveMix ==
    \A p, q \in Procs :
        ( /\ p # q
          /\ q \in procs[p].overlap
          /\ Succeeded(p, "update") /\ Succeeded(q, "update")
          /\ procs[p].id = procs[q].id )
        => LET final == get_agents_by_chatroom_id(relations, procs[p].id)
               N1 == agent_id_set(procs[p].agent)
               N2 == agent_id_set(procs[q].agent)
           IN /\ final \subseteq N1 \cup N2
              /\ N1 \subseteq final \/ N2 \subseteq final

\* both updates have returned success and the agents of the room are those of
\* neither list
C10_Witness ==
    /\ 2 \in procs[1].overlap
    /\ Succeeded(1, "update") /\ Succeeded(2, "update")
    /\ procs[1].id = procs[2].id
    /\ Live(procs[1].id)
    /\ get_agents_by_chatroom_id(relations, procs[1].id) # agent_id_set(procs[1].agent)
    /\ get_agents_by_chatroom_id(relations, procs[1].id) # agent_id_set(procs[2].agent)

\* C11: a soft-deleted room (status = 3) has no membership row once no call is
\* in flight, also when a delete call ran between the existence check and the
\* inserts of an update call on the same room.
C11_DeletedRoomHasNoRows ==
    (\A p \in Procs : Free(p)) =>
        \A c \in RoomIds :
            chatrooms[c].status = StatusDeleted => RoomRows(relations, c) = {}

====
